---------------------------- MODULE Spec2Model ----------------------------
(***************************************************************************)
(* A model of graph_database_sharedmem, the shared-memory graph database   *)
(* of src/graphlab/database/sharedmem_database/graph_vertex_sharedmem.hpp, *)
(* and of its vertex and edge handles.                                     *)
(*                                                                         *)
(* The database is single threaded: every public operation is one action.  *)
(* The caller holds at most one shard of its own (a copy or a derived      *)
(* shard) in `held`; the live shards are reached through get_shard.        *)
(* Spec explores the modification API with the coarse grained API,         *)
(* FineSpec the modification API with the fine grained API (the vertex     *)
(* handle in `vhandle`, the edge handles of get_adj_list in `adj`).        *)
(***************************************************************************)
EXTENDS Integers, Sequences, FiniteSets, TLC

VARIABLES
    shards,        \* graph_shard* shards: shard id -> graph_shard_impl
    vertex_store,  \* std::vector<graph_row*>: pointers to the vertex rows in the shards
    vertex_index,  \* graph_vertex_index: vid -> slot of vertex_store
    edge_index,    \* std::vector<graph_edge_index>: per shard, vid -> positions
    vid2master,    \* unordered_map vid -> master shard, as operator[] reads it
    vid2mirrors,   \* unordered_map vid -> set of mirror shards, as operator[] reads it
    num_edges,     \* _num_edges
    held,          \* the shard the caller owns (a copy or a derived shard), if any
    held_from,     \* which call returned the held shard, its arguments, and
                   \* whether commit_shard has written a value back from it
    writes,        \* the number of field writes the caller has made
    aborted,       \* an ASSERT_TRUE has failed
    requested,     \* history: the vids passed to add_vertex or to add_edge
    vhandle,       \* the graph_vertex_sharedmem the caller holds, if any
    adj            \* the edge handles of the caller's last get_adj_list, if any

vars == <<shards, vertex_store, vertex_index, edge_index, vid2master, vid2mirrors,
          num_edges, held, held_from, writes, aborted, requested, vhandle, adj>>

(***************************************************************************)
(* Bounds of the model.                                                    *)
(***************************************************************************)
\* numshards, the constructor's argument
NumShards == 3
\* vertex ids are 1 .. MaxVid
MaxVid == 2
\* add_edge is called at most MaxEdges times
MaxEdges == 2
\* the length of the edge schema (edge_fields)
NumEdgeFields == 2
\* the length of the vertex schema (vertex_fields)
NumVertexFields == 1
\* the caller writes a field at most MaxWrites times; the k-th write writes the
\* value k, and 0 is the null value
MaxWrites == 2

Shards == 0 .. (NumShards - 1)
Vids == 1 .. MaxVid
Values == 1 .. MaxWrites
Null == 0

(***************************************************************************)
(* Sequence helpers.                                                       *)
(***************************************************************************)
Range(s) == {s[i] : i \in DOMAIN s}

\* the map f with key k set to v (unordered_map: f[k] = v)
Put(f, k, v) == [x \in (DOMAIN f) \cup {k} |-> IF x = k THEN v ELSE f[x]]

EmptyMap == [x \in {} |-> 0]

(***************************************************************************)
(* boost::hash.  A word is a size_t, 64 bits, kept as four 16-bit limbs    *)
(* <<l0, l1, l2, l3>> (least significant first) so that no intermediate    *)
(* value leaves the 32-bit integer range of TLC.                           *)
(***************************************************************************)
Limb == 2 ^ 16

\* an unsigned value below 2^31 as a word
ToWord(n) == <<n % Limb, n \div Limb, 0, 0>>

\* a + b modulo 2^64
WordAdd(a, b) ==
    LET s1 == a[1] + b[1]
        s2 == a[2] + b[2] + (s1 \div Limb)
        s3 == a[3] + b[3] + (s2 \div Limb)
        s4 == a[4] + b[4] + (s3 \div Limb)
    IN  <<s1 % Limb, s2 % Limb, s3 % Limb, s4 % Limb>>

RECURSIVE LimbXor(_, _, _)
\* the bitwise exclusive or of the low `bits` bits of x and y
LimbXor(x, y, bits) ==
    IF bits = 0 THEN 0
    ELSE ((x + y) % 2) + 2 * LimbXor(x \div 2, y \div 2, bits - 1)

WordXor(a, b) == [i \in 1 .. 4 |-> LimbXor(a[i], b[i], 16)]

\* a << 6 modulo 2^64
WordShl6(a) ==
    LET s1 == a[1] * 64
        s2 == a[2] * 64 + (s1 \div Limb)
        s3 == a[3] * 64 + (s2 \div Limb)
        s4 == a[4] * 64 + (s3 \div Limb)
    IN  <<s1 % Limb, s2 % Limb, s3 % Limb, s4 % Limb>>

\* a >> 2
WordShr2(a) ==
    << (a[1] \div 4) + (a[2] % 4) * (Limb \div 4),
       (a[2] \div 4) + (a[3] % 4) * (Limb \div 4),
       (a[3] \div 4) + (a[4] % 4) * (Limb \div 4),
       a[4] \div 4 >>

\* a modulo n, by Horner's rule over the limbs (n is small)
WordMod(a, n) ==
    ((((((a[4] % n) * Limb + a[3]) % n) * Limb + a[2]) % n) * Limb + a[1]) % n

\* 0x9e3779b9
HashGolden == <<31161, 40503, 0, 0>>

\* boost::hash_combine(seed, v): seed ^= hash_value(v) + 0x9e3779b9 + (seed<<6) + (seed>>2)
\* with hash_value of an unsigned integer the integer itself
hash_combine(seed, v) ==
    WordXor(seed, WordAdd(WordAdd(WordAdd(ToWord(v), HashGolden), WordShl6(seed)),
                          WordShr2(seed)))

\* boost::hash<graph_vid_t>()(vid) % num_shards()
vid_hash_mod == [v \in Vids |-> WordMod(ToWord(v), NumShards)] @@ EmptyMap

\* boost::hash<std::pair<graph_vid_t, graph_vid_t> >()(pair) % num_shards()
edge_hash_mod ==
    [p \in Vids \X Vids |->
        WordMod(hash_combine(hash_combine(ToWord(0), p[1]), p[2]), NumShards)] @@ EmptyMap

(***************************************************************************)
(* graph_value and graph_row: a value holds its data, the baseline taken   *)
(* at the last commit and the modified flag; a row is the sequence of the  *)
(* values of its fields (field j of the source is element j + 1).          *)
(***************************************************************************)
\* a null value of a freshly built row
null_value == [data |-> Null, old |-> Null, modified |-> FALSE]

\* graph_row(database, fields): a row of all null values
new_row(nfields) == [j \in 1 .. nfields |-> null_value]

\* graph_value::set_*: writes the data and marks the value modified
set_val(val, x) == [val EXCEPT !.data = x, !.modified = TRUE]

\* graph_value::post_commit_state: clears the modified flag, snapshots the baseline
post_commit_state(val) == [data |-> val.data, old |-> val.data, modified |-> FALSE]

\* graph_value::deepcopy(out): out becomes a structural copy of the value
value_deepcopy(val) == [data |-> val.data, old |-> val.old, modified |-> val.modified]

\* graph_row::deepcopy(out)
row_deepcopy(row) == [j \in DOMAIN row |-> value_deepcopy(row[j])]

\* the `data` arguments of add_vertex and add_edge: <<>> is NULL, the default
DataArgs(nfields) == {<<>>}

(***************************************************************************)
(* graph_shard_impl: the vertex list with its rows, the edge list with its *)
(* rows, and edgeid, the origin positions of a derived shard's edges.      *)
(***************************************************************************)
new_shard(id) ==
    [shard_id |-> id, vertex |-> <<>>, vertex_data |-> <<>>,
     edge |-> <<>>, edge_data |-> <<>>, edgeid |-> <<>>]

\* graph_shard_impl::add_vertex(vid, row): appends a copy of the row; the position
\* it returns is the length before the call
shard_add_vertex(sh, vid, row) ==
    [sh EXCEPT !.vertex = Append(@, vid), !.vertex_data = Append(@, row_deepcopy(row))]

\* graph_shard_impl::add_edge(source, target, row)
shard_add_edge(sh, source, target, row) ==
    [sh EXCEPT !.edge = Append(@, <<source, target>>),
               !.edge_data = Append(@, row_deepcopy(row))]

\* graph_shard_impl::deepcopy(out)
shard_deepcopy(sh) ==
    [shard_id |-> sh.shard_id, vertex |-> sh.vertex,
     vertex_data |-> [i \in DOMAIN sh.vertex_data |-> row_deepcopy(sh.vertex_data[i])],
     edge |-> sh.edge,
     edge_data |-> [i \in DOMAIN sh.edge_data |-> row_deepcopy(sh.edge_data[i])],
     edgeid |-> sh.edgeid]

\* graph_shard::num_edges
shard_num_edges(sh) == Len(sh.edge)

\* graph_shard::edge_data(pos) != NULL
has_edge_data(sh, pos) == pos >= 0 /\ pos < Len(sh.edge_data)

(***************************************************************************)
(* graph_vertex_index and graph_edge_index.                                *)
(***************************************************************************)
\* graph_vertex_index::has_vertex
has_vertex(vindex, vid) == vid \in DOMAIN vindex

\* graph_vertex_index::get_index: the slot of vid, (size_t)-1 (here the largest
\* integer) for a vid that was never added
get_index(vindex, vid) == IF vid \in DOMAIN vindex THEN vindex[vid] ELSE 2 ^ 30

\* a graph_edge_index with no entries
new_edge_index == [inidx |-> [v \in Vids |-> <<>>], outidx |-> [v \in Vids |-> <<>>]]

\* graph_edge_index::add_edge(source, target, pos)
edge_index_add_edge(idx, source, target, pos) ==
    [inidx  |-> [idx.inidx EXCEPT ![target] = Append(@, pos)],
     outidx |-> [idx.outidx EXCEPT ![source] = Append(@, pos)]]

\* graph_edge_index::get_edge_index(index_in, index_out, getIn, getOut, vid)
get_edge_index(idx, getIn, getOut, vid) ==
    [index_in  |-> IF getIn THEN idx.inidx[vid] ELSE <<>>,
     index_out |-> IF getOut THEN idx.outidx[vid] ELSE <<>>]

(***************************************************************************)
(* sharding_constraint(numshards, "grid"): the shards are laid out in row   *)
(* major order on a square grid of side GridSide, the smallest side whose   *)
(* square holds every shard; two shards are adjacent when they share a row  *)
(* or a column, a shard being adjacent to itself.                           *)
(***************************************************************************)
GridSide ==
    CHOOSE g \in 1 .. NumShards :
        g * g >= NumShards /\ \A h \in 1 .. (g - 1) : h * h < NumShards

\* sharding_constraint: shards a and b are adjacent
grid_adjacent(a, b) == (a \div GridSide = b \div GridSide) \/ (a % GridSide = b % GridSide)

\* sharding_constraint::get_neighbors(shard, out)
get_neighbors(a) == {b \in Shards : grid_adjacent(a, b)}

\* adjacent_shards(shard_id, out_adj_shard_ids)
adjacent_shards(shard_id) == get_neighbors(shard_id)

(***************************************************************************)
(* The database after construction.                                        *)
(***************************************************************************)
Call(op, a, b) == [op |-> op, a |-> a, b |-> b, committed |-> 0]

Init ==
    /\ shards = [k \in Shards |-> new_shard(k)]
    /\ vertex_store = <<>>
    /\ vertex_index = EmptyMap
    /\ edge_index = [k \in Shards |-> new_edge_index]
    /\ vid2master = [v \in Vids |-> 0]
    /\ vid2mirrors = [v \in Vids |-> {}]
    /\ num_edges = 0
    /\ held = <<>>
    /\ held_from = Call("none", 0, 0)
    /\ writes = 0
    /\ aborted = FALSE
    /\ requested = {}
    /\ vhandle = <<>>
    /\ adj = <<>>

\* num_vertices()
num_vertices == Len(vertex_store)

(***************************************************************************)
(* add_vertex and add_edge.  The database part of the state is the record  *)
(* db; the operators return the record after the call.                     *)
(***************************************************************************)
DB == [shards |-> shards, vertex_store |-> vertex_store, vertex_index |-> vertex_index,
       edge_index |-> edge_index, vid2master |-> vid2master, vid2mirrors |-> vid2mirrors,
       num_edges |-> num_edges]

\* the body of add_vertex after the has_vertex test: the row goes to the master
\* shard hash(vid) % num_shards, and vid2master, vertex_store and vertex_index
\* are updated
insert_vertex(db, vid, data) ==
    LET row == IF data = <<>> THEN new_row(NumVertexFields) ELSE data
        master == vid_hash_mod[vid]
        ptr == Len(db.shards[master].vertex)
        store == Append(db.vertex_store, [shard |-> master, ptr |-> ptr])
    IN  [db EXCEPT !.shards[master] = shard_add_vertex(@, vid, row),
                   !.vid2master[vid] = master,
                   !.vertex_store = store,
                   !.vertex_index = Put(@, vid, Len(store) - 1)]

\* a version of add_vertex without the test for a vid that is already indexed
db_add_vertex_always(db, vid, data) == <<insert_vertex(db, vid, data), TRUE>>

\* add_vertex(vid, data) on database db: <<the database after the call, the result>>
db_add_vertex(db, vid, data) ==
    IF has_vertex(db.vertex_index, vid) THEN <<db, FALSE>>
    ELSE <<insert_vertex(db, vid, data), TRUE>>

\* a version of add_mirror that does not compare the shard with the master
add_mirror_any_shard(db, v, shardid) ==
    IF shardid \notin db.vid2mirrors[v]
    THEN [db EXCEPT !.vid2mirrors[v] = @ \cup {shardid}]
    ELSE db

\* a version of add_mirror that assigns the shard instead of inserting it
add_mirror_assign(db, v, shardid) ==
    IF db.vid2master[v] # shardid /\ shardid \notin db.vid2mirrors[v]
    THEN [db EXCEPT !.vid2mirrors[v] = {shardid}]
    ELSE db

\* one `Add vertices to mirror shards` step of add_edge for endpoint v
add_mirror(db, v, shardid) ==
    IF db.vid2master[v] # shardid /\ shardid \notin db.vid2mirrors[v]
    THEN [db EXCEPT !.vid2mirrors[v] = @ \cup {shardid}]
    ELSE db

\* a version of insert_edge that leaves _num_edges alone
insert_edge_uncounted(db, shardid, source, target, row) ==
    LET pos == Len(db.shards[shardid].edge)
    IN  [db EXCEPT !.shards[shardid] = shard_add_edge(@, source, target, row),
                   !.edge_index[shardid] = edge_index_add_edge(@, source, target, pos)]

\* a version of insert_edge that puts the new edge in front of the shard's edges
insert_edge_front(db, shardid, source, target, row) ==
    [db EXCEPT !.shards[shardid].edge = <<<<source, target>>>> \o @,
               !.shards[shardid].edge_data = <<row_deepcopy(row)>> \o @,
               !.num_edges = @ + 1,
               !.edge_index[shardid] = edge_index_add_edge(@, source, target, 0)]

\* the first part of add_edge: the row is appended to shard shardid, _num_edges
\* is incremented and the shard's edge index is updated
insert_edge(db, shardid, source, target, row) ==
    LET pos == Len(db.shards[shardid].edge)
    IN  [db EXCEPT !.shards[shardid] = shard_add_edge(@, source, target, row),
                   !.num_edges = @ + 1,
                   !.edge_index[shardid] = edge_index_add_edge(@, source, target, pos)]

\* add_edge(source, target, data) on database db: the database after the call
db_add_edge(db, source, target, data) ==
    LET shardid == edge_hash_mod[<<source, target>>]
        row == IF data = <<>> THEN new_row(NumEdgeFields) ELSE data
        db1 == insert_edge(db, shardid, source, target, row)
        db2 == IF ~has_vertex(db1.vertex_index, source)
               THEN db_add_vertex(db1, source, <<>>)[1] ELSE db1
        db3 == IF ~has_vertex(db2.vertex_index, target)
               THEN db_add_vertex(db2, target, <<>>)[1] ELSE db2
    IN  add_mirror(add_mirror(db3, source, shardid), target, shardid)

\* the database variables become the record db
SetDB(db) ==
    /\ shards' = db.shards
    /\ vertex_store' = db.vertex_store
    /\ vertex_index' = db.vertex_index
    /\ edge_index' = db.edge_index
    /\ vid2master' = db.vid2master
    /\ vid2mirrors' = db.vid2mirrors
    /\ num_edges' = db.num_edges

add_vertex(vid, data) ==
    /\ ~aborted
    /\ SetDB(db_add_vertex(DB, vid, data)[1])
    /\ requested' = requested \cup {vid}
    /\ UNCHANGED <<held, held_from, writes, aborted, vhandle, adj>>

add_edge(source, target, data) ==
    /\ ~aborted
    /\ num_edges < MaxEdges
    /\ SetDB(db_add_edge(DB, source, target, data))
    /\ requested' = requested \cup {source, target}
    /\ UNCHANGED <<held, held_from, writes, aborted, vhandle, adj>>

(***************************************************************************)
(* The fine grained lookups.                                               *)
(***************************************************************************)
\* get_master(vid): vid2master[vid]; operator[] reads shard 0 for a vid that has
\* no entry
get_master(vid) == vid2master[vid]

(***************************************************************************)
(* The coarse grained API.                                                 *)
(***************************************************************************)
\* get_shard_copy(shard_id)
get_shard_copy(shard_id) ==
    /\ ~aborted
    /\ held = <<>>
    /\ held' = <<shard_deepcopy(shards[shard_id])>>
    /\ held_from' = Call("get_shard_copy", shard_id, shard_id)
    /\ UNCHANGED <<shards, vertex_store, vertex_index, edge_index, vid2master,
                   vid2mirrors, num_edges, writes, aborted, requested, vhandle, adj>>

\* a version of adj_positions_of that looks at the mirror set only
adj_positions_of_mirrors(db, shard_id, adjacent_to, vid) ==
    IF adjacent_to \in db.vid2mirrors[vid]
    THEN LET idx == get_edge_index(db.edge_index[adjacent_to], TRUE, TRUE, vid)
         IN  idx.index_in \o idx.index_out
    ELSE <<>>

\* the loop body of get_shard_contents_adj_to for vertex vid: the positions in shard
\* adjacent_to that are copied, the incoming edges first, then the outgoing ones
adj_positions_of(db, shard_id, adjacent_to, vid) ==
    IF shard_id = adjacent_to \/ adjacent_to \in db.vid2mirrors[vid]
    THEN LET idx == get_edge_index(db.edge_index[adjacent_to], TRUE, TRUE, vid)
         IN  idx.index_in \o idx.index_out
    ELSE <<>>

RECURSIVE adj_positions(_, _, _, _)
\* the positions copied for the vertices vids[i ..] of shard shard_id
adj_positions(db, shard_id, adjacent_to, i) ==
    LET vids == db.shards[shard_id].vertex
    IN  IF i > Len(vids) THEN <<>>
        ELSE adj_positions_of(db, shard_id, adjacent_to, vids[i])
                 \o adj_positions(db, shard_id, adjacent_to, i + 1)

\* a version of shard_contents_adj_to that records the local position in edgeid
shard_contents_adj_to_local(db, shard_id, adjacent_to) ==
    LET pos == adj_positions(db, shard_id, adjacent_to, 1)
        from == db.shards[adjacent_to]
    IN  [shard_id |-> adjacent_to, vertex |-> <<>>, vertex_data |-> <<>>,
         edge |-> [k \in DOMAIN pos |-> from.edge[pos[k] + 1]],
         edge_data |-> [k \in DOMAIN pos |-> row_deepcopy(from.edge_data[pos[k] + 1])],
         edgeid |-> [k \in DOMAIN pos |-> k - 1]]

\* the shard get_shard_contents_adj_to(shard_id, adjacent_to) returns
shard_contents_adj_to(db, shard_id, adjacent_to) ==
    LET pos == adj_positions(db, shard_id, adjacent_to, 1)
        from == db.shards[adjacent_to]
    IN  [shard_id |-> adjacent_to, vertex |-> <<>>, vertex_data |-> <<>>,
         edge |-> [k \in DOMAIN pos |-> from.edge[pos[k] + 1]],
         edge_data |-> [k \in DOMAIN pos |-> row_deepcopy(from.edge_data[pos[k] + 1])],
         edgeid |-> pos]

\* get_shard_contents_adj_to(shard_id, adjacent_to)
get_shard_contents_adj_to(shard_id, adjacent_to) ==
    /\ ~aborted
    /\ held = <<>>
    /\ held' = <<shard_contents_adj_to(DB, shard_id, adjacent_to)>>
    /\ held_from' = Call("get_shard_contents_adj_to", shard_id, adjacent_to)
    /\ UNCHANGED <<shards, vertex_store, vertex_index, edge_index, vid2master,
                   vid2mirrors, num_edges, writes, aborted, requested, vhandle, adj>>

\* a version of free_shard for a shard whose rows are the rows of the live shard:
\* clearing the shard frees the data of the origin rows too
free_shard_shared_rows ==
    /\ ~aborted
    /\ held # <<>>
    /\ held' = <<>>
    /\ held_from' = Call("none", 0, 0)
    /\ shards' = [shards EXCEPT ![held[1].shard_id].edge_data =
                     [p \in DOMAIN @ |-> [j \in DOMAIN @[p] |-> null_value]]]
    /\ UNCHANGED <<vertex_store, vertex_index, edge_index, vid2master,
                   vid2mirrors, num_edges, writes, aborted, requested, vhandle, adj>>

\* free_shard(shard) of the shard the caller owns
free_shard ==
    /\ ~aborted
    /\ held # <<>>
    /\ held' = <<>>
    /\ held_from' = Call("none", 0, 0)
    /\ UNCHANGED <<shards, vertex_store, vertex_index, edge_index, vid2master,
                   vid2mirrors, num_edges, writes, aborted, requested, vhandle, adj>>

(***************************************************************************)
(* commit_shard.                                                           *)
(***************************************************************************)
\* a version of commit_row_local that stops after the first field
commit_row_local_first(row) ==
    [j \in DOMAIN row |->
        IF j = 1 /\ row[j].modified THEN post_commit_state(row[j]) ELSE row[j]]

\* the inner loop over the fields of one row: post_commit_state on every modified
\* value
commit_row_local(row) ==
    [j \in DOMAIN row |-> IF row[j].modified THEN post_commit_state(row[j]) ELSE row[j]]

\* a version of commit_row_origin that writes every field back, modified or not
commit_row_origin_all(local, origin) ==
    [j \in DOMAIN origin |->
        IF j \in DOMAIN local
        THEN value_deepcopy(post_commit_state(local[j]))
        ELSE origin[j]]

\* the inner loop of the edge part, seen from the origin row: every modified local
\* value is committed, the origin's data freed, and the local value deep-copied
\* into the origin field
commit_row_origin(local, origin) ==
    [j \in DOMAIN origin |->
        IF j \in DOMAIN local /\ local[j].modified
        THEN value_deepcopy(post_commit_state(local[j]))
        ELSE origin[j]]

\* the number of modified values of a row
num_modified(row) == Cardinality({j \in DOMAIN row : row[j].modified})

RECURSIVE num_modified_rows(_)
num_modified_rows(rows) ==
    IF rows = <<>> THEN 0 ELSE num_modified(Head(rows)) + num_modified_rows(Tail(rows))

\* the position in the live shard of the origin of local edge i (0-based)
origin_pos(shard, i) == IF Len(shard.edgeid) > 0 THEN shard.edgeid[i + 1] ELSE i

RECURSIVE commit_edges(_, _, _)
\* the edge loop of commit_shard from local edge i on, for a shard that is not the
\* live one; st holds the local shard, the live shards and the assertion's outcome
commit_edges(st, id, i) ==
    IF i >= shard_num_edges(st.shard) THEN st
    ELSE LET p == origin_pos(st.shard, i)
             local == st.shard.edge_data[i + 1]
         IN  IF ~has_edge_data(st.shards[id], p)
             THEN [st EXCEPT !.aborted = TRUE]
             ELSE commit_edges(
                    [st EXCEPT !.shards[id].edge_data[p + 1] = commit_row_origin(local, @),
                               !.shard.edge_data[i + 1] = commit_row_local(local)],
                    id, i + 1)

\* commit_shard(shard) for a shard the caller owns
commit_owned(shard, live) ==
    LET id == shard.shard_id
        vcommitted == [shard EXCEPT !.vertex_data =
                          [i \in DOMAIN @ |-> commit_row_local(@[i])]]
    IN  commit_edges([shard |-> vcommitted, shards |-> live, aborted |-> FALSE], id, 0)

\* the outcome of a read of freed data that finds the old data still there
Kept == MaxWrites + 1

\* what a value holds after free_data() and a deepcopy of it onto itself: the
\* copy reads data that has just been freed, so anything may come back
freed_selfcopy(val, readback) ==
    [val EXCEPT !.data = IF readback = Kept THEN @ ELSE readback]

\* commit_shard(get_shard(id)): the local rows are the origin rows themselves
commit_live_shard(sh, readback) ==
    [sh EXCEPT
       !.vertex_data = [i \in DOMAIN @ |-> commit_row_local(@[i])],
       !.edge_data = [i \in DOMAIN @ |->
           [j \in DOMAIN @[i] |->
               IF @[i][j].modified
               THEN freed_selfcopy(post_commit_state(@[i][j]), readback)
               ELSE @[i][j]]]]

\* commit_shard(held)
commit_shard_held ==
    /\ ~aborted
    /\ held # <<>>
    /\ LET st == commit_owned(held[1], shards)
       IN  /\ held' = <<st.shard>>
           /\ shards' = st.shards
           /\ aborted' = st.aborted
    /\ held_from' = [held_from EXCEPT
                        !.committed = IF num_modified_rows(held[1].edge_data) > 0
                                      THEN 1 ELSE @]
    /\ UNCHANGED <<vertex_store, vertex_index, edge_index, vid2master, vid2mirrors,
                   num_edges, writes, requested, vhandle, adj>>

\* commit_shard(get_shard(id))
commit_shard_live(id) ==
    /\ ~aborted
    /\ \E readback \in {Kept, Null} :
           shards' = [shards EXCEPT ![id] = commit_live_shard(@, readback)]
    /\ UNCHANGED <<vertex_store, vertex_index, edge_index, vid2master, vid2mirrors,
                   num_edges, held, held_from, writes, aborted, requested, vhandle, adj>>

(***************************************************************************)
(* The caller's writes: a field of a row is set through the row pointer of *)
(* the held shard or of a live shard (graph_shard::edge_data, vertex_data).*)
(* The k-th write of a run writes the value k.                             *)
(***************************************************************************)
write_held_edge(i, j) ==
    /\ ~aborted
    /\ held # <<>>
    /\ writes < MaxWrites
    /\ i \in DOMAIN held[1].edge_data
    /\ held' = <<[held[1] EXCEPT !.edge_data[i][j] = set_val(@, writes + 1)]>>
    /\ writes' = writes + 1
    /\ UNCHANGED <<shards, vertex_store, vertex_index, edge_index, vid2master,
                   vid2mirrors, num_edges, held_from, aborted, requested, vhandle, adj>>

write_held_vertex(i, j) ==
    /\ ~aborted
    /\ held # <<>>
    /\ writes < MaxWrites
    /\ i \in DOMAIN held[1].vertex_data
    /\ held' = <<[held[1] EXCEPT !.vertex_data[i][j] = set_val(@, writes + 1)]>>
    /\ writes' = writes + 1
    /\ UNCHANGED <<shards, vertex_store, vertex_index, edge_index, vid2master,
                   vid2mirrors, num_edges, held_from, aborted, requested, vhandle, adj>>

write_live_edge(id, i, j) ==
    /\ ~aborted
    /\ writes < MaxWrites
    /\ i \in DOMAIN shards[id].edge_data
    /\ shards' = [shards EXCEPT ![id].edge_data[i][j] = set_val(@, writes + 1)]
    /\ writes' = writes + 1
    /\ UNCHANGED <<vertex_store, vertex_index, edge_index, vid2master,
                   vid2mirrors, num_edges, held, held_from, aborted, requested, vhandle, adj>>

write_live_vertex(id, i, j) ==
    /\ ~aborted
    /\ writes < MaxWrites
    /\ i \in DOMAIN shards[id].vertex_data
    /\ shards' = [shards EXCEPT ![id].vertex_data[i][j] = set_val(@, writes + 1)]
    /\ writes' = writes + 1
    /\ UNCHANGED <<vertex_store, vertex_index, edge_index, vid2master,
                   vid2mirrors, num_edges, held, held_from, aborted, requested, vhandle, adj>>

(***************************************************************************)
(* The fine grained API: get_vertex and the vertex handle.  A handle's row *)
(* pointer is the entry of vertex_store: the master shard and the position *)
(* of the row in it.                                                       *)
(***************************************************************************)
\* graph_vertex_sharedmem(vid, data, master, mirrors, db): the members are
\* initialised from the arguments, the mirror set by copy
new_vertex_handle(vid, data, master, mirrors) ==
    [vid |-> vid, vdata |-> data, master |-> master, mirrors |-> mirrors]

\* a version of get_vertex that takes slot 0 for a vid the index does not hold
db_get_vertex_slot0(db, vid) ==
    LET idx == IF has_vertex(db.vertex_index, vid) THEN get_index(db.vertex_index, vid)
               ELSE 0
    IN  IF idx >= Len(db.vertex_store) THEN <<>>
        ELSE <<new_vertex_handle(vid, db.vertex_store[idx + 1], db.vid2master[vid],
                                 db.vid2mirrors[vid])>>

\* get_vertex(vid) on database db: <<>> is NULL, <<h>> the new handle h
db_get_vertex(db, vid) ==
    LET idx == get_index(db.vertex_index, vid)
    IN  IF idx >= Len(db.vertex_store) THEN <<>>
        ELSE <<new_vertex_handle(vid, db.vertex_store[idx + 1], db.vid2master[vid],
                                 db.vid2mirrors[vid])>>

\* data(): the row of handle h in database db
vertex_row(db, h) == db.shards[h.vdata.shard].vertex_data[h.vdata.ptr + 1]

\* a version of write_changes with an empty body
vh_write_changes_empty(db, h) == db

\* write_changes() of vertex handle h: post_commit_state on every modified value
vh_write_changes(db, h) ==
    [db EXCEPT !.shards[h.vdata.shard].vertex_data[h.vdata.ptr + 1] =
        [j \in DOMAIN @ |-> IF @[j].modified THEN post_commit_state(@[j]) ELSE @[j]]]

\* write_changes_async()
vh_write_changes_async(db, h) == vh_write_changes(db, h)

\* refresh()
vh_refresh(db, h) == db

\* write_and_refresh()
vh_write_and_refresh(db, h) == vh_write_changes(db, h)

\* master_shard()
master_shard(h) == h.master

\* a version of the handle's mirror set that is the database's set, not a copy
vh_mirrors_live(db, h) == db.vid2mirrors[h.vid]

\* the member `mirrors` of handle h
vh_mirrors(db, h) == h.mirrors

\* get_num_shards()
get_num_shards(db, h) == Cardinality(vh_mirrors(db, h)) + 1

RECURSIVE SetToSeq(_)
\* the elements of a set of numbers as a vector, in ascending order
SetToSeq(S) ==
    IF S = {} THEN <<>>
    ELSE LET m == CHOOSE x \in S : \A y \in S : x <= y
         IN  <<m>> \o SetToSeq(S \ {m})

\* get_shard_list(): the vector built from mirrors.begin() .. mirrors.end()
get_shard_list(db, h) == SetToSeq(vh_mirrors(db, h))

get_vertex(vid) ==
    /\ ~aborted
    /\ vhandle = <<>>
    /\ vhandle' = db_get_vertex(DB, vid)
    /\ UNCHANGED <<shards, vertex_store, vertex_index, edge_index, vid2master,
                   vid2mirrors, num_edges, held, held_from, writes, aborted,
                   requested, adj>>

\* free_vertex(vertex)
free_vertex ==
    /\ ~aborted
    /\ vhandle # <<>>
    /\ vhandle' = <<>>
    /\ UNCHANGED <<shards, vertex_store, vertex_index, edge_index, vid2master,
                   vid2mirrors, num_edges, held, held_from, writes, aborted,
                   requested, adj>>

vertex_write_changes ==
    /\ ~aborted
    /\ vhandle # <<>>
    /\ SetDB(vh_write_changes(DB, vhandle[1]))
    /\ UNCHANGED <<held, held_from, writes, aborted, requested, vhandle, adj>>

vertex_write_changes_async ==
    /\ ~aborted
    /\ vhandle # <<>>
    /\ SetDB(vh_write_changes_async(DB, vhandle[1]))
    /\ UNCHANGED <<held, held_from, writes, aborted, requested, vhandle, adj>>

vertex_refresh ==
    /\ ~aborted
    /\ vhandle # <<>>
    /\ SetDB(vh_refresh(DB, vhandle[1]))
    /\ UNCHANGED <<held, held_from, writes, aborted, requested, vhandle, adj>>

vertex_write_and_refresh ==
    /\ ~aborted
    /\ vhandle # <<>>
    /\ SetDB(vh_write_and_refresh(DB, vhandle[1]))
    /\ UNCHANGED <<held, held_from, writes, aborted, requested, vhandle, adj>>

\* the caller sets field j of the row data() returns
write_vertex_data(j) ==
    /\ ~aborted
    /\ vhandle # <<>>
    /\ writes < MaxWrites
    /\ LET h == vhandle[1]
       IN  shards' = [shards EXCEPT ![h.vdata.shard].vertex_data[h.vdata.ptr + 1][j] =
                         set_val(@, writes + 1)]
    /\ writes' = writes + 1
    /\ UNCHANGED <<vertex_store, vertex_index, edge_index, vid2master, vid2mirrors,
                   num_edges, held, held_from, aborted, requested, vhandle, adj>>

(***************************************************************************)
(* get_adj_list and the edge handles.  An edge handle's row pointer is the  *)
(* shard and the position of the edge row in it.  The caller passes empty   *)
(* vectors and holds the result of one get_adj_list at a time.              *)
(***************************************************************************)
\* graph_edge_sharedmem(sourceid, targetid, data, master, database)
new_edge_handle(sourceid, targetid, data, master) ==
    [sourceid |-> sourceid, targetid |-> targetid, cache |-> data, master |-> master]

\* the handle get_adj_list builds for position idx of shard shard_id
edge_handle_at(db, shard_id, idx) ==
    LET pair == db.shards[shard_id].edge[idx + 1]
    IN  new_edge_handle(pair[1], pair[2], [shard |-> shard_id, pos |-> idx], shard_id)

\* a version of get_adj_list that asks the index for both directions
adj_list_both(db, h, shard_id, getIn, getOut) ==
    LET idx == get_edge_index(db.edge_index[shard_id], TRUE, TRUE, h.vid)
    IN  [out_inadj  |-> [i \in DOMAIN idx.index_in |->
                            edge_handle_at(db, shard_id, idx.index_in[i])],
         out_outadj |-> [i \in DOMAIN idx.index_out |->
                            edge_handle_at(db, shard_id, idx.index_out[i])]]

\* get_adj_list(shard_id, prefetch_data, out_inadj, out_outadj) of vertex handle h:
\* what is appended to the two vectors; getIn and getOut tell whether the vector
\* was given
adj_list(db, h, shard_id, getIn, getOut) ==
    LET idx == get_edge_index(db.edge_index[shard_id], getIn, getOut, h.vid)
    IN  [out_inadj  |-> [i \in DOMAIN idx.index_in |->
                            edge_handle_at(db, shard_id, idx.index_in[i])],
         out_outadj |-> [i \in DOMAIN idx.index_out |->
                            edge_handle_at(db, shard_id, idx.index_out[i])]]

\* data(): the row of edge handle e in database db
edge_row(db, e) == db.shards[e.cache.shard].edge_data[e.cache.pos + 1]

\* a version of the edge handle's write_changes that commits as the vertex handle's
eh_write_changes_commit(db, e) ==
    [db EXCEPT !.shards[e.cache.shard].edge_data[e.cache.pos + 1] =
        [j \in DOMAIN @ |-> IF @[j].modified THEN post_commit_state(@[j]) ELSE @[j]]]

\* write_changes() of edge handle e: the body is empty
eh_write_changes(db, e) == db

\* write_changes_async(): the body is empty
eh_write_changes_async(db, e) == db

\* refresh(): the body is empty
eh_refresh(db, e) == db

\* write_and_refresh(): the body is empty
eh_write_and_refresh(db, e) == db

\* the edge handles the caller holds
edge_handles == IF adj = <<>> THEN <<>> ELSE adj[1].out_inadj \o adj[1].out_outadj

get_adj_list(shard_id, getIn, getOut) ==
    /\ ~aborted
    /\ vhandle # <<>>
    /\ adj = <<>>
    /\ LET r == adj_list(DB, vhandle[1], shard_id, getIn, getOut)
       IN  adj' = <<[vid |-> vhandle[1].vid, shard_id |-> shard_id,
                     getIn |-> getIn, getOut |-> getOut,
                     out_inadj |-> r.out_inadj, out_outadj |-> r.out_outadj]>>
    /\ UNCHANGED <<shards, vertex_store, vertex_index, edge_index, vid2master,
                   vid2mirrors, num_edges, held, held_from, writes, aborted,
                   requested, vhandle>>

\* free_edge_vector(edgelist) on both vectors
free_edge_vector ==
    /\ ~aborted
    /\ adj # <<>>
    /\ adj' = <<>>
    /\ UNCHANGED <<shards, vertex_store, vertex_index, edge_index, vid2master,
                   vid2mirrors, num_edges, held, held_from, writes, aborted,
                   requested, vhandle>>

edge_write_changes(i) ==
    /\ ~aborted
    /\ i \in DOMAIN edge_handles
    /\ SetDB(eh_write_changes(DB, edge_handles[i]))
    /\ UNCHANGED <<held, held_from, writes, aborted, requested, vhandle, adj>>

edge_write_changes_async(i) ==
    /\ ~aborted
    /\ i \in DOMAIN edge_handles
    /\ SetDB(eh_write_changes_async(DB, edge_handles[i]))
    /\ UNCHANGED <<held, held_from, writes, aborted, requested, vhandle, adj>>

edge_refresh(i) ==
    /\ ~aborted
    /\ i \in DOMAIN edge_handles
    /\ SetDB(eh_refresh(DB, edge_handles[i]))
    /\ UNCHANGED <<held, held_from, writes, aborted, requested, vhandle, adj>>

edge_write_and_refresh(i) ==
    /\ ~aborted
    /\ i \in DOMAIN edge_handles
    /\ SetDB(eh_write_and_refresh(DB, edge_handles[i]))
    /\ UNCHANGED <<held, held_from, writes, aborted, requested, vhandle, adj>>

\* the caller sets field j of the row data() of its i-th edge handle returns
write_edge_data(i, j) ==
    /\ ~aborted
    /\ writes < MaxWrites
    /\ i \in DOMAIN edge_handles
    /\ LET e == edge_handles[i]
       IN  shards' = [shards EXCEPT ![e.cache.shard].edge_data[e.cache.pos + 1][j] =
                         set_val(@, writes + 1)]
    /\ writes' = writes + 1
    /\ UNCHANGED <<vertex_store, vertex_index, edge_index, vid2master, vid2mirrors,
                   num_edges, held, held_from, aborted, requested, vhandle, adj>>

\* row positions (1-based) and field positions a write may name
RowPos == 1 .. (2 * MaxEdges + MaxVid)
EdgeFieldPos == 1 .. NumEdgeFields
VertexFieldPos == 1 .. NumVertexFields

Next ==
    \/ \E v \in Vids, data \in DataArgs(NumVertexFields) : add_vertex(v, data)
    \/ \E s \in Vids, t \in Vids, data \in DataArgs(NumEdgeFields) : add_edge(s, t, data)
    \/ \E k \in Shards : get_shard_copy(k)
    \/ \E a \in Shards, b \in Shards : get_shard_contents_adj_to(a, b)
    \/ free_shard
    \/ commit_shard_held
    \/ \E k \in Shards : commit_shard_live(k)
    \/ \E i \in RowPos, j \in EdgeFieldPos : write_held_edge(i, j)
    \/ \E i \in RowPos, j \in VertexFieldPos : write_held_vertex(i, j)
    \/ \E k \in Shards, i \in RowPos, j \in EdgeFieldPos : write_live_edge(k, i, j)
    \/ \E k \in Shards, i \in RowPos, j \in VertexFieldPos : write_live_vertex(k, i, j)

Spec == Init /\ [][Next]_vars

FineNext ==
    \/ \E v \in Vids, data \in DataArgs(NumVertexFields) : add_vertex(v, data)
    \/ \E s \in Vids, t \in Vids, data \in DataArgs(NumEdgeFields) : add_edge(s, t, data)
    \/ \E v \in Vids : get_vertex(v)
    \/ free_vertex
    \/ vertex_write_changes
    \/ vertex_write_changes_async
    \/ vertex_refresh
    \/ vertex_write_and_refresh
    \/ \E j \in VertexFieldPos : write_vertex_data(j)
    \/ \E k \in Shards, getIn \in BOOLEAN, getOut \in BOOLEAN : get_adj_list(k, getIn, getOut)
    \/ free_edge_vector
    \/ \E i \in RowPos : edge_write_changes(i)
    \/ \E i \in RowPos : edge_write_changes_async(i)
    \/ \E i \in RowPos : edge_refresh(i)
    \/ \E i \in RowPos : edge_write_and_refresh(i)
    \/ \E i \in RowPos, j \in EdgeFieldPos : write_edge_data(i, j)

FineSpec == Init /\ [][FineNext]_vars

(***************************************************************************)
(* Properties.                                                             *)
(***************************************************************************)
\* the held shard came from get_shard_contents_adj_to
IsDerived == held # <<>> /\ held_from.op = "get_shard_contents_adj_to"

\* the held shard is what get_shard_contents_adj_to would return now
IsFreshDerived ==
    IsDerived /\ held[1] = shard_contents_adj_to(DB, held_from.a, held_from.b)

\* the vids stored in shard a
stored_in(a) == Range(shards[a].vertex)

\* edge e = <<source, target>> touches vertex v
touches(e, v) == e[1] = v \/ e[2] = v

\* every part of a live shard except the values of its edge rows
ShardShape(sh) ==
    <<sh.shard_id, sh.vertex, sh.vertex_data, sh.edge, sh.edgeid,
      [p \in DOMAIN sh.edge_data |-> DOMAIN sh.edge_data[p]]>>

\* a value written back by a commit: committed, and not null
IsWrittenBack(val) == ~val.modified /\ val.data # Null /\ val.old = val.data

\* C1: commit_shard(d) of a derived shard d = get_shard_contents_adj_to(a, b)
\* changes, in the live shards, only the fields (edgeid[i], j) of shard b for
\* which field j of d's row i was marked modified; every other edge field, all
\* vertex rows and every other shard stay as they were.
C1_CommitFrame ==
    IsDerived =>
        LET d == held[1]
            st == commit_owned(d, shards)
        IN  \A k \in Shards :
              /\ ShardShape(st.shards[k]) = ShardShape(shards[k])
              /\ \A p \in DOMAIN shards[k].edge_data :
                   \A j \in DOMAIN shards[k].edge_data[p] :
                     st.shards[k].edge_data[p][j] # shards[k].edge_data[p][j]
                       => /\ k = held_from.b
                          /\ \E i \in DOMAIN d.edge_data :
                               /\ d.edgeid[i] = p - 1
                               /\ d.edge_data[i][j].modified

\* C1 witness: a derived shard has been committed; a field of live shard b holds
\* the value written back, another field of the same row is still null, and the
\* shard has a second edge row
C1_Witness ==
    /\ IsDerived
    /\ held_from.committed > 0
    /\ Len(shards[held_from.b].edge) >= 2
    /\ \E i \in DOMAIN held[1].edge_data :
         \E j \in EdgeFieldPos, j2 \in EdgeFieldPos :
           LET origin == shards[held_from.b].edge_data[held[1].edgeid[i] + 1]
           IN  /\ IsWrittenBack(held[1].edge_data[i][j])
               /\ origin[j] = held[1].edge_data[i][j]
               /\ origin[j2] = null_value

\* C2: after commit_shard(shard), every field j of edge row i that was marked
\* modified before the call has, in the origin row (position edgeid[i] of the
\* live shard for a derived shard, position i otherwise), the value of the local
\* field.
C2_CommitWritesBack ==
    held # <<>> =>
        LET d == held[1]
            st == commit_owned(d, shards)
        IN  \A i \in DOMAIN d.edge_data :
              \A j \in DOMAIN d.edge_data[i] :
                d.edge_data[i][j].modified
                  => st.shards[d.shard_id].edge_data[origin_pos(d, i - 1) + 1][j].data
                       = st.shard.edge_data[i][j].data

\* C3: the set of origin positions in the edgeid of
\* get_shard_contents_adj_to(a, b) is the set of positions of live shard b whose
\* edge has its source or its target among the vertices stored in shard a.
C3_AdjacentEdgeSet ==
    \A a \in Shards, b \in Shards :
        Range(shard_contents_adj_to(DB, a, b).edgeid)
          = {p \in 0 .. (Len(shards[b].edge) - 1) :
                \E v \in stored_in(a) : touches(shards[b].edge[p + 1], v)}

\* C3 witness: a derived shard of two different shards that holds an edge of shard
\* b and leaves another edge of shard b out
C3_Witness ==
    /\ IsFreshDerived
    /\ held_from.a # held_from.b
    /\ held[1].edgeid # <<>>
    /\ \E p \in 0 .. (Len(shards[held_from.b].edge) - 1) : p \notin Range(held[1].edgeid)

\* C4: a shard returned by get_shard_contents_adj_to(a, b) has id b, no vertices,
\* an edgeid as long as its edge sequence, and its edge i has the endpoints and
\* the field values of the edge at position edgeid[i] of live shard b.
C4_DerivedShardShape ==
    \A a \in Shards, b \in Shards :
        LET d == shard_contents_adj_to(DB, a, b)
        IN  /\ d.shard_id = b
            /\ d.vertex = <<>> /\ d.vertex_data = <<>>
            /\ Len(d.edgeid) = Len(d.edge)
            /\ Len(d.edge_data) = Len(d.edge)
            /\ \A i \in DOMAIN d.edge :
                 /\ d.edgeid[i] \in 0 .. (Len(shards[b].edge) - 1)
                 /\ d.edge[i] = shards[b].edge[d.edgeid[i] + 1]
                 /\ DOMAIN d.edge_data[i] = DOMAIN shards[b].edge_data[d.edgeid[i] + 1]
                 /\ \A j \in DOMAIN d.edge_data[i] :
                      d.edge_data[i][j].data
                        = shards[b].edge_data[d.edgeid[i] + 1][j].data

\* C4 witness: a derived shard just returned, one of its rows carrying a value
\* that is not null, and whose edgeid is not the sequence 0, 1, ...
C4_Witness ==
    /\ IsFreshDerived
    /\ \E i \in DOMAIN held[1].edge_data :
         \E j \in EdgeFieldPos : held[1].edge_data[i][j].data # Null
    /\ \E i \in DOMAIN held[1].edgeid : held[1].edgeid[i] # i - 1

\* the vids that have an entry in the vertex index
known == DOMAIN vertex_index

\* the shards other than v's master that store an edge touching v
edge_shards(db, v) ==
    {k \in Shards \ {db.vid2master[v]} :
        \E p \in DOMAIN db.shards[k].edge : touches(db.shards[k].edge[p], v)}

\* C5: for every known vertex v the mirror set is exactly the set of shards other
\* than master(v) that store an edge touching v; and add_edge(s, t), landing in
\* shard k, leaves k in the mirror set of each endpoint whose master is not k.
C5_MirrorSets ==
    /\ \A v \in known : vid2mirrors[v] = edge_shards(DB, v)
    /\ \A s \in Vids, t \in Vids :
         LET after == db_add_edge(DB, s, t, <<>>)
             k == edge_hash_mod[<<s, t>>]
         IN  /\ \A v \in {s, t} :
                   k # after.vid2master[v] => k \in after.vid2mirrors[v]
             /\ \A v \in DOMAIN after.vertex_index :
                   after.vid2mirrors[v] = edge_shards(after, v)

\* C5 witness: one vertex has a mirror shard, another has an edge in its master
\* shard and no mirror
C5_Witness ==
    \E v \in known, u \in known :
        /\ vid2mirrors[v] # {}
        /\ vid2mirrors[u] = {}
        /\ \E p \in DOMAIN shards[vid2master[u]].edge :
               touches(shards[vid2master[u]].edge[p], u)

RECURSIVE edge_count(_)
\* the number of edge entries in shards 0 .. k
edge_count(k) == IF k < 0 THEN 0 ELSE Len(shards[k].edge) + edge_count(k - 1)

\* C6: num_edges() is the sum of the shards' edge counts, and add_edge(s, t)
\* increases num_edges() by one and appends the entry (s, t) to the shard
\* hash((s, t)) mod num_shards, leaving the edge list of every other shard and
\* every existing entry as it was.
C6_OneRowPerEdge ==
    /\ num_edges = edge_count(NumShards - 1)
    /\ \A s \in Vids, t \in Vids :
         LET after == db_add_edge(DB, s, t, <<>>)
             h == edge_hash_mod[<<s, t>>]
         IN  /\ after.num_edges = num_edges + 1
             /\ after.shards[h].edge = Append(shards[h].edge, <<s, t>>)
             /\ \A k \in Shards \ {h} : after.shards[k].edge = shards[k].edge

\* C6 witness: two edges have been added, to two different shards
C6_Witness ==
    /\ num_edges = 2
    /\ \E h \in Shards, k \in Shards :
         h # k /\ Len(shards[h].edge) = 1 /\ Len(shards[k].edge) = 1

\* the places <<shard, position>> where vid v is stored
places(v) ==
    {pl \in Shards \X (1 .. MaxVid + 1) :
        pl[2] \in DOMAIN shards[pl[1]].vertex /\ shards[pl[1]].vertex[pl[2]] = v}

\* C7: the known vertices are exactly the vids passed to add_vertex or used as an
\* endpoint of add_edge, num_vertices() is their number, and each is stored
\* exactly once, in the vertex list of shard hash(v) mod num_shards.
C7_KnownVertices ==
    /\ known = requested
    /\ num_vertices = Cardinality(requested)
    /\ \A k \in Shards : Len(shards[k].vertex) <= MaxVid
    /\ \A v \in Vids :
         IF v \in requested
         THEN \E i \in DOMAIN shards[vid_hash_mod[v]].vertex :
                  places(v) = {<<vid_hash_mod[v], i>>}
         ELSE places(v) = {}

\* C7 witness: every vid is known, one of them only as the endpoint of a self-loop
C7_Witness ==
    /\ requested = Vids
    /\ num_vertices = MaxVid
    /\ \E k \in Shards : \E p \in DOMAIN shards[k].edge :
         shards[k].edge[p][1] = shards[k].edge[p][2]

\* C8: add_vertex(v) on a known vid returns false and leaves the database as it
\* was; on an unknown vid it returns true and num_vertices() grows by one.
C8_AddVertexTwice ==
    \A v \in Vids :
        LET r == db_add_vertex(DB, v, <<>>)
        IN  IF v \in requested
            THEN r[2] = FALSE /\ r[1] = DB
            ELSE r[2] = TRUE /\ Len(r[1].vertex_store) = num_vertices + 1

\* C8 witness: a vertex created by add_edge is refused, an unknown one accepted
C8_Witness ==
    /\ num_edges >= 1
    /\ \E v \in requested : db_add_vertex(DB, v, <<>>)[2] = FALSE
    /\ \E v \in Vids \ requested : db_add_vertex(DB, v, <<>>)[2] = TRUE

\* C9: in every step, of whatever operation, a known vertex stays known and keeps
\* its master shard, and every mirror set keeps the shards it had.
C9_MasterFixedMirrorsGrow ==
    [][\A v \in Vids :
          /\ v \in known => (v \in DOMAIN vertex_index' /\ vid2master'[v] = vid2master[v])
          /\ vid2mirrors[v] \subseteq vid2mirrors'[v]]_vars

\* C9 witness: a vertex with a mirror shard, after a commit_shard has written back
C9_Witness ==
    /\ \E v \in known : vid2mirrors[v] # {}
    /\ num_edges = MaxEdges
    /\ held # <<>> /\ held_from.committed > 0

\* no value of the shard's vertex rows and edge rows is marked modified
NoModified(sh) ==
    /\ \A i \in DOMAIN sh.vertex_data : num_modified(sh.vertex_data[i]) = 0
    /\ \A i \in DOMAIN sh.edge_data : num_modified(sh.edge_data[i]) = 0

\* C10: after commit_shard(shard) no value of the shard passed in is marked
\* modified, for a shard the caller owns (a copy or a derived shard) and for the
\* live shard get_shard returns.
C10_CommitClearsFlags ==
    /\ held # <<>> =>
         LET st == commit_owned(held[1], shards)
         IN  ~st.aborted /\ NoModified(st.shard)
    /\ \A k \in Shards, readback \in {Kept, Null} :
         NoModified(commit_live_shard(shards[k], readback))

\* C10 witness: a copy whose vertex row was written and committed (the live row is
\* still null) and whose edge rows were written and committed
C10_Witness ==
    /\ held # <<>> /\ held_from.op = "get_shard_copy"
    /\ held_from.committed > 0
    /\ NoModified(held[1])
    /\ \E i \in DOMAIN held[1].vertex_data :
         /\ IsWrittenBack(held[1].vertex_data[i][1])
         /\ shards[held_from.a].vertex_data[i][1] = null_value

\* C11: a step in which the caller writes a row of the shard it owns (a copy or a
\* derived shard), or releases that shard with free_shard, leaves every live shard
\* as it was: every row value and every modification flag.
C11_OwnedShardIndependent ==
    [][(/\ held # <<>>
        /\ held' # held
        /\ (writes' # writes \/ held' = <<>>)) => shards' = shards]_vars

\* C11 witness: the caller's shard carries an uncommitted write of a row whose
\* origin row in the live shard is still null and unmodified
C11_Witness ==
    /\ held # <<>>
    /\ held_from.committed = 0
    /\ \E i \in DOMAIN held[1].edge_data : \E j \in EdgeFieldPos :
         /\ held[1].edge_data[i][j].modified
         /\ held[1].edge_data[i][j].data # Null
         /\ \A k \in Shards : \A p \in DOMAIN shards[k].edge_data :
              shards[k].edge_data[p] = new_row(NumEdgeFields)

\* the sequence has no repeated element
NoRepeats(seq) == \A i \in DOMAIN seq, k \in DOMAIN seq : seq[i] = seq[k] => i = k

\* C12: on a vertex handle, write_changes(), write_changes_async() and
\* write_and_refresh() give the same database: no field of the vertex row is
\* marked modified afterwards and every field keeps its value; on the row so
\* committed each of them changes nothing, and refresh() changes nothing.
C12_VertexWriteChanges ==
    vhandle # <<>> =>
        LET h == vhandle[1]
            row == vertex_row(DB, h)
            after == vh_write_changes(DB, h)
        IN  /\ num_modified(vertex_row(after, h)) = 0
            /\ \A j \in DOMAIN row : vertex_row(after, h)[j].data = row[j].data
            /\ vh_write_changes_async(DB, h) = after
            /\ vh_write_and_refresh(DB, h) = after
            /\ vh_write_changes(after, h) = after
            /\ vh_write_changes_async(after, h) = after
            /\ vh_write_and_refresh(after, h) = after
            /\ vh_refresh(DB, h) = DB
            /\ vh_refresh(after, h) = after

\* C12 witness: the handle's row was written and then committed through the handle
C12_Witness ==
    /\ vhandle # <<>>
    /\ \E j \in VertexFieldPos : IsWrittenBack(vertex_row(DB, vhandle[1])[j])

\* the positions of shard k whose edge has target v, and those whose edge has
\* source v
in_positions(k, v) == {p \in 0 .. (Len(shards[k].edge) - 1) : shards[k].edge[p + 1][2] = v}
out_positions(k, v) == {p \in 0 .. (Len(shards[k].edge) - 1) : shards[k].edge[p + 1][1] = v}

\* list holds one handle per position of P, each with the endpoints and the row
\* of its position in shard k and with owning shard k
HandlesOf(list, k, P) ==
    /\ Len(list) = Cardinality(P)
    /\ {list[i].cache.pos : i \in DOMAIN list} = P
    /\ \A i \in DOMAIN list :
         /\ list[i].cache.shard = k
         /\ list[i].master = k
         /\ <<list[i].sourceid, list[i].targetid>> = shards[k].edge[list[i].cache.pos + 1]

C14_GetVertex ==
    \A v \in Vids :
        LET r == db_get_vertex(DB, v)
        IN  IF v \in requested
            THEN /\ r # <<>>
                 /\ r[1].vid = v
                 /\ master_shard(r[1]) = vid_hash_mod[v]
                 /\ r[1].vdata.shard = vid_hash_mod[v]
                 /\ r[1].vdata.ptr + 1 \in DOMAIN shards[vid_hash_mod[v]].vertex
                 /\ shards[vid_hash_mod[v]].vertex[r[1].vdata.ptr + 1] = v
            ELSE /\ r = <<>>
                 /\ v \notin known
                 /\ db_add_vertex(DB, v, <<>>)[2] = TRUE

\* C14 witness: the caller holds the handle get_vertex returned for a known vid
\* and has written its row through it, and another vid is still unknown
C14_Witness ==
    /\ vhandle # <<>>
    /\ vhandle[1] = db_get_vertex(DB, vhandle[1].vid)[1]
    /\ vertex_row(DB, vhandle[1]) # new_row(NumVertexFields)
    /\ Vids \ requested # {}

\* what get_num_shards() and get_shard_list() return on the caller's handle
HandleShards ==
    IF vhandle = <<>> THEN <<>>
    ELSE <<get_num_shards(DB, vhandle[1]), get_shard_list(DB, vhandle[1])>>

\* C15: as long as the caller holds a vertex handle, no step (an add_edge that
\* grows the live mirror set included) changes what get_num_shards() and
\* get_shard_list() return on it.
C15_MirrorSnapshot ==
    [][(vhandle # <<>> /\ vhandle' = vhandle) => HandleShards' = HandleShards]_vars

\* C15 witness: the live mirror set of the handle's vertex has grown since the
\* handle was issued
C15_Witness ==
    /\ vhandle # <<>>
    /\ vid2mirrors[vhandle[1].vid] # vhandle[1].mirrors
    /\ get_num_shards(DB, vhandle[1]) = Cardinality(vhandle[1].mirrors) + 1

C17_EdgeWriteChangesClears ==
    \A i \in DOMAIN edge_handles :
        LET e == edge_handles[i]
        IN  num_modified(edge_row(eh_write_changes(DB, e), e)) = 0

\* C18: on a vertex handle, get_shard_list() has no duplicates, has
\* get_num_shards() entries, and holds the master shard and every mirror shard.
C18_ShardList ==
    vhandle # <<>> =>
        LET h == vhandle[1]
            list == get_shard_list(DB, h)
        IN  /\ NoRepeats(list)
            /\ Len(list) = get_num_shards(DB, h)
            /\ Range(list) = {master_shard(h)} \cup vh_mirrors(DB, h)

\* C19: for every shard a and every edge with an endpoint mastered in a, the shard
\* b that stores the edge is in adjacent_shards(a).
C19_AdjacentShardsCoverEdges ==
    \A a \in Shards, b \in Shards :
        \A p \in DOMAIN shards[b].edge :
            (\E v \in known : vid2master[v] = a /\ touches(shards[b].edge[p], v))
              => b \in adjacent_shards(a)

\* C20: in the shard get_shard_contents_adj_to(a, b) returns, no origin position
\* occurs twice in edgeid: each edge of live shard b appears at most once.
C20_NoRepeatedOrigin ==
    \A a \in Shards, b \in Shards : NoRepeats(shard_contents_adj_to(DB, a, b).edgeid)

\* C21: commit_shard(get_shard(id)) leaves the data of every edge field of the
\* live shard as it was before the call, modified fields included.
C21_LiveCommitKeepsData ==
    \A k \in Shards, readback \in {Kept, Null} :
        LET after == commit_live_shard(shards[k], readback)
        IN  \A p \in DOMAIN shards[k].edge_data :
              \A j \in DOMAIN shards[k].edge_data[p] :
                after.edge_data[p][j].data = shards[k].edge_data[p][j].data

\* C22: whatever add_vertex, add_edge and commit_shard calls follow
\* get_shard_contents_adj_to(a, b), every edgeid[i] of the derived shard is a
\* position of live shard b, the edge there has the endpoints of the derived
\* shard's edge i, and commit_shard of the derived shard does not fail its
\* assertion.
C22_BackMappingStaysValid ==
    /\ ~aborted
    /\ IsDerived =>
         LET d == held[1]
             live == shards[held_from.b]
         IN  /\ d.shard_id = held_from.b
             /\ \A i \in DOMAIN d.edge :
                  /\ d.edgeid[i] \in 0 .. (Len(live.edge) - 1)
                  /\ live.edge[d.edgeid[i] + 1] = d.edge[i]
             /\ ~commit_owned(d, shards).aborted

\* C22 witness: after the derived shard was returned an edge touching a vertex of
\* shard a was added to shard b, and the derived shard was then committed
C22_Witness ==
    /\ IsDerived
    /\ held_from.committed > 0
    /\ held[1].edgeid # <<>>
    /\ \E p \in 0 .. (Len(shards[held_from.b].edge) - 1) :
         /\ p \notin Range(held[1].edgeid)
         /\ \E v \in stored_in(held_from.a) : touches(shards[held_from.b].edge[p + 1], v)

=============================================================================
